---- MODULE Spec2Model ----
(***************************************************************************)
(* Model of cleanlab/internal/validation.py: the input checks run before   *)
(* label-quality analysis.  The module keeps no state of its own, so the   *)
(* state of the model is one call in flight: which function was called,    *)
(* its arguments, and what the call did (the error it raised, the checks   *)
(* it ran in order, the warning it emitted, the value it returned).        *)
(*                                                                         *)
(* numpy arrays, pandas containers and lists are records                   *)
(*   [form, shape, data, ok]                                               *)
(* with shape the tuple of dimensions, data the values in row-major order  *)
(* and ok = FALSE for an object that np.asarray cannot coerce.             *)
(***************************************************************************)
EXTENDS Integers, Sequences, FiniteSets

VARIABLES pc, fn, X, y, pred_probs, multi_label, allow_missing_classes,
          idx, length_X, env, result

vars == <<pc, fn, X, y, pred_probs, multi_label, allow_missing_classes,
          idx, length_X, env, result>>

----------------------------------------------------------------------------
(* Bounds of the model.                                                    *)

\* longest label sequence handed directly to the label functions
MaxLen == 3
\* largest class index that appears in a label sequence
MaxLabel == 2
\* largest number of examples (rows of X, labels, rows of pred_probs) in a
\* call of assert_valid_inputs
MaxN == 2
\* largest number of columns of pred_probs
MaxCols == 2

----------------------------------------------------------------------------
(* Values.                                                                 *)

\* len(obj) / obj.shape[0] raising is written as the size -1
Unsized == -1

\* the float nan: not a number, every comparison with it is false
NaN == 99

\* length_X when assert_indexing_works is given neither idx nor length_X
DefaultLengthX == 2

\* an absent optional argument (None)
NoArg == [given |-> FALSE, val |-> <<>>]
Arg(v) == [given |-> TRUE, val |-> v]

\* class labels: the indices 0..MaxLabel and one negative label
LabelVals == (0 .. MaxLabel) \cup {-1}

\* entries of pred_probs: below 0, the two ends of [0,1], above 1, nan
ProbVals == {-1, 0, 1, 2, NaN}

SeqsUpTo(S, n) == UNION {[1 .. k -> S] : k \in 0 .. n}

RECURSIVE Product(_)
Product(shape) ==
    IF shape = <<>> THEN 1 ELSE Head(shape) * Product(Tail(shape))

Container(form, shape, data, ok) ==
    [form |-> form, shape |-> shape, data |-> data, ok |-> ok]

\* the two-dimensional shapes with at most n cells (and the empty ones)
Shapes2(n) ==
    {<<r, c>> : r \in 0 .. n, c \in 0 .. n} \ {s \in {<<r, c>> : r \in 0 .. n, c \in 0 .. n} : s[1] * s[2] > n}

Ndim(a) == Len(a.shape)

----------------------------------------------------------------------------
(* numpy and Python primitives the checks use.                             *)

\* len(obj) of a list, tuple, array, Series or DataFrame: the first
\* dimension; a 0-d array or a numpy scalar has no len() (TypeError)
LenOf(c) == IF Ndim(c) = 0 THEN Unsized ELSE c.shape[1]

RECURSIVE SortedSeq(_)
SortedSeq(S) ==
    IF S = {} THEN <<>>
    ELSE LET m == CHOOSE v \in S : \A w \in S : v <= w
         IN  <<m>> \o SortedSeq(S \ {m})

\* np.unique(a): the sorted distinct values of the flattened array
Unique(a) == SortedSeq({a.data[i] : i \in 1 .. Len(a.data)})

\* np.arange(n)
Arange(n) == [i \in 1 .. n |-> i - 1]

\* (u != np.arange(len(u))).any()
AnyDiffers(u, v) == \E i \in 1 .. Len(u) : u[i] # v[i]

HasNaN(a) == \E i \in 1 .. Len(a.data) : a.data[i] = NaN

\* np.min / np.max: nan if any entry is nan (the array is not empty)
NpMin(a) ==
    IF HasNaN(a) THEN NaN
    ELSE CHOOSE v \in {a.data[i] : i \in 1 .. Len(a.data)} :
            \A i \in 1 .. Len(a.data) : v <= a.data[i]
NpMax(a) ==
    IF HasNaN(a) THEN NaN
    ELSE CHOOSE v \in {a.data[i] : i \in 1 .. Len(a.data)} :
            \A i \in 1 .. Len(a.data) : v >= a.data[i]

\* float comparison: false as soon as one side is nan
Less(a, b) == a # NaN /\ b # NaN /\ a < b

----------------------------------------------------------------------------
(* What a call did.                                                        *)

NoArray == Container("None", <<>>, <<>>, TRUE)

\* err: the error raised ("none" if the call returned), at: the check that
\* raised it, trace: the checks reached, in order, warned: warnings.warn was
\* called, y: the current value of the local y, idx: the index list tried,
\* via: the indexing protocol that worked
Start == [err |-> "none", at |-> "", trace |-> <<>>, warned |-> FALSE,
          y |-> NoArray, idx |-> <<>>, via |-> ""]

Failed(r) == r.err # "none"

\* the call reaches check c
Reach(r, c) == [r EXCEPT !.trace = Append(@, c)]

\* the check just reached raises error e
Raise(r, e) == [r EXCEPT !.err = e, !.at = r.trace[Len(r.trace)]]

----------------------------------------------------------------------------
(* labels_to_array                                                         *)

\* y.values of a DataFrame is two-dimensional; flatten() lays it out flat
Flatten(a) == Container("ndarray", <<Product(a.shape)>>, a.data, TRUE)

labels_to_array(r0, yy) ==
    LET r == Reach(r0, "labels_to_array")
    IN  IF yy.form = "Series"
        THEN [r EXCEPT !.y = Container("ndarray", yy.shape, yy.data, TRUE)]
        ELSE IF yy.form = "DataFrame"
        THEN IF yy.shape[2] # 1
             THEN Raise(r, "ValueError")
             ELSE [r EXCEPT !.y = Flatten(yy)]
        ELSE IF ~yy.ok
             THEN Raise(r, "ValueError")
             ELSE [r EXCEPT !.y = Container("ndarray", yy.shape, yy.data, TRUE)]

----------------------------------------------------------------------------
(* assert_valid_class_labels                                               *)

\* a check of the first class only
ZeroIndexed_first_only(u) == u[1] = 0

ZeroIndexed(u) == ~AnyDiffers(u, Arange(Len(u)))

\* the two completeness checks in the other order
assert_valid_class_labels_swapped(r0, a, amc) ==
    LET r1 == Reach(r0, "labels_ndim")
    IN  IF Ndim(a) # 1 THEN Raise(r1, "ValueError")
        ELSE IF amc THEN r1
        ELSE LET unique_classes == Unique(a)
                 r2 == Reach(r1, "labels_zero_indexed")
             IN  IF ~ZeroIndexed(unique_classes) THEN Raise(r2, "TypeError")
                 ELSE LET r3 == Reach(r2, "labels_two_classes")
                      IN  IF Len(unique_classes) < 2
                          THEN Raise(r3, "ValueError")
                          ELSE r3

assert_valid_class_labels(r0, a, amc) ==
    LET r1 == Reach(r0, "labels_ndim")
    IN  IF Ndim(a) # 1 THEN Raise(r1, "ValueError")
        ELSE IF amc THEN r1
        ELSE LET unique_classes == Unique(a)
                 r2 == Reach(r1, "labels_two_classes")
             IN  IF Len(unique_classes) < 2 THEN Raise(r2, "ValueError")
                 ELSE LET r3 == Reach(r2, "labels_zero_indexed")
                      IN  IF ~ZeroIndexed(unique_classes)
                          THEN Raise(r3, "TypeError")
                          ELSE r3

----------------------------------------------------------------------------
(* Features X: an opaque handle.  kind is what isinstance sees; len and    *)
(* shape0 are the answers of len(X) and X.shape[0] (Unsized: it raises);   *)
(* iloc and getitem say whether X.iloc[idx] and X[idx] work.               *)

Features(kind, len, shape0, iloc, getitem) ==
    [kind |-> kind, len |-> len, shape0 |-> shape0, iloc |-> iloc,
     getitem |-> getitem]

\* X = None: no len(), no shape, no indexing
NoneX == Features("None", Unsized, Unsized, FALSE, FALSE)

Sizes(n) == (0 .. n) \cup {Unsized}

\* pandas containers always have a length; only they have .iloc;
\* a streaming dataset may or may not have a length
XSet(n) ==
    {NoneX}
    \cup {Features("pandas", l, l, i, g) : l \in 0 .. n, i \in BOOLEAN, g \in BOOLEAN}
    \cup {Features("torch", l, Unsized, FALSE, g) : l \in Sizes(n), g \in BOOLEAN}
    \cup {Features("tf", l, Unsized, FALSE, g) : l \in Sizes(n), g \in BOOLEAN}
    \cup {Features("other", l, s, FALSE, g) : l \in Sizes(n), s \in Sizes(n), g \in BOOLEAN}

\* which optional libraries can be imported
EnvSet == [torch : BOOLEAN, tensorflow : BOOLEAN]

\* an object is an instance of a library's Dataset only if the library exists
Possible(x, e) ==
    /\ x.kind = "torch" => e.torch
    /\ x.kind = "tf" => e.tensorflow

----------------------------------------------------------------------------
(* assert_nonempty_input, assert_indexing_works                            *)

assert_nonempty_input(r0, x) ==
    LET r == Reach(r0, "nonempty")
    IN  IF x.kind = "None" THEN Raise(r, "ValueError") ELSE r

\* idx = [0, length_X - 1] unless idx is given
IndexList(i, n) ==
    IF i.given THEN i.val
    ELSE <<0, (IF n.given THEN n.val ELSE DefaultLengthX) - 1>>

\* a failure of X.iloc[idx] that is not caught
TryIloc_any_pandas(x) == x.kind = "pandas"

\* X.iloc[idx] inside try: only for a DataFrame or Series
TryIloc(x) == x.kind = "pandas" /\ x.iloc

\* import torch; isinstance(X, torch.utils.data.Dataset); Subset(X, idx)
TryTorch(x, e) == e.torch /\ x.kind = "torch"

\* import tensorflow; isinstance(X, tf.data.Dataset)
TryTensorflow(x, e) == e.tensorflow /\ x.kind = "tf"

Indexed(r, how) == [r EXCEPT !.via = how]

assert_indexing_works(r0, x, i, n, e) ==
    LET ra == Reach([r0 EXCEPT !.idx = IndexList(i, n)], "iloc")
    IN  IF TryIloc(x) THEN Indexed(ra, "iloc")
        ELSE LET rb == Reach(ra, "torch")
             IN  IF TryTorch(x, e) THEN Indexed(rb, "torch")
                 ELSE LET rc == Reach(rb, "tensorflow")
                      IN  IF TryTensorflow(x, e) THEN Indexed(rc, "tensorflow")
                          ELSE LET rd == Reach(rc, "getitem")
                               IN  IF x.getitem THEN Indexed(rd, "getitem")
                                   ELSE Raise(rd, "TypeError")

----------------------------------------------------------------------------
(* assert_valid_inputs                                                     *)

AcceptedForms == {"list", "ndarray", "generic", "Series", "DataFrame"}

\* isinstance(y, (list, np.ndarray, np.generic, pd.Series, pd.DataFrame))
CheckLabelForm(r0, yy) ==
    LET r == Reach(r0, "label_form")
    IN  IF yy.form \notin AcceptedForms THEN Raise(r, "TypeError") ELSE r

\* the labels normalized and checked in multi-label mode too
NormalizeLabels_always(r0, yy, ml, amc) ==
    LET r == labels_to_array(r0, yy)
    IN  IF Failed(r) THEN r ELSE assert_valid_class_labels(r, r.y, amc)

\* if not multi_label: y = labels_to_array(y); assert_valid_class_labels(y)
NormalizeLabels(r0, yy, ml, amc) ==
    IF ml THEN r0
    ELSE LET r == labels_to_array(r0, yy)
         IN  IF Failed(r) THEN r ELSE assert_valid_class_labels(r, r.y, amc)

IsTfDataset(x, e) == e.tensorflow /\ x.kind = "tf"

\* X checked even when pred_probs is given
AllowEmptyX_tf_only(x, pp, e) == IsTfDataset(x, e)

\* X may go unchecked when pred_probs is given or X is a tensorflow Dataset
AllowEmptyX(x, pp, e) ==
    IF IsTfDataset(x, e) THEN TRUE ELSE pp.form # "None"

\* X.shape[0] preferred to len(X)
NumExamples_shape_first(x) == IF x.shape0 # Unsized THEN x.shape0 ELSE x.len

\* len(X) first, X.shape[0] only if len(X) raised
NumExamples(x) == IF x.len # Unsized THEN x.len ELSE x.shape0

CheckSize(r0, x) ==
    LET r1 == Reach(r0, "len")
    IN  IF x.len # Unsized THEN r1
        ELSE LET r2 == Reach(r1, "shape")
             IN  IF x.shape0 # Unsized THEN r2 ELSE Raise(r2, "TypeError")

\* num_examples != len(y); len(y) itself raises TypeError for an unsized y
CheckSameLength(r0, n) ==
    LET r == Reach(r0, "same_length")
    IN  IF LenOf(r.y) = Unsized THEN Raise(r, "TypeError")
        ELSE IF n # LenOf(r.y) THEN Raise(r, "ValueError")
        ELSE r

CheckFeatures(r0, x, pp, e) ==
    IF AllowEmptyX(x, pp, e) THEN r0
    ELSE LET r1 == assert_nonempty_input(r0, x)
         IN  IF Failed(r1) THEN r1
             ELSE LET r2 == CheckSize(r1, x)
                  IN  IF Failed(r2) THEN r2
                      ELSE LET r3 == CheckSameLength(r2, NumExamples(x))
                           IN  IF Failed(r3) THEN r3
                               ELSE assert_indexing_works(
                                        r3, x, NoArg, Arg(NumExamples(x)), e)

\* isinstance(pred_probs, (np.ndarray, np.generic))
CheckProbsType(r0, pp) ==
    LET r == Reach(r0, "pp_type")
    IN  IF pp.form \notin {"ndarray", "generic"} THEN Raise(r, "TypeError")
        ELSE r

\* len(pred_probs) != len(y); either len() raises TypeError when unsized
CheckProbsRows(r0, pp) ==
    LET r == Reach(r0, "pp_rows")
    IN  IF LenOf(pp) = Unsized \/ LenOf(r.y) = Unsized
        THEN Raise(r, "TypeError")
        ELSE IF LenOf(pp) # LenOf(r.y) THEN Raise(r, "ValueError")
        ELSE r

CheckProbsNdim(r0, pp) ==
    LET r == Reach(r0, "pp_ndim")
    IN  IF Ndim(pp) # 2 THEN Raise(r, "ValueError") ELSE r

\* (np.min(pred_probs) < 0) or (np.max(pred_probs) > 1); np.min of an
\* empty array raises ValueError
OutOfRange(pp) == Less(NpMin(pp), 0) \/ Less(1, NpMax(pp))

CheckProbsRange(r0, pp) ==
    LET r == Reach(r0, "pp_range")
    IN  IF Len(pp.data) = 0 THEN Raise(r, "ValueError")
        ELSE IF OutOfRange(pp) THEN Raise(r, "ValueError")
        ELSE r

WarnIfX(r0, x) ==
    LET r == Reach(r0, "warn_X")
    IN  IF x.kind # "None" THEN [r EXCEPT !.warned = TRUE] ELSE r

\* the class count checked in multi-label mode too
ClassCountChecked_ignores_multi_label(ml, amc) == ~amc

\* if not allow_missing_classes and not multi_label
ClassCountChecked(ml, amc) == ~amc /\ ~ml

CheckClassCount(r0, pp, ml, amc) ==
    IF ~ClassCountChecked(ml, amc) THEN r0
    ELSE LET r == Reach(r0, "class_count")
         IN  IF Len(Unique(r.y)) # pp.shape[2] THEN Raise(r, "ValueError")
             ELSE r

CheckPredProbs(r0, x, pp, ml, amc) ==
    IF pp.form = "None" THEN r0
    ELSE LET r1 == CheckProbsType(r0, pp)
         IN  IF Failed(r1) THEN r1
             ELSE LET r2 == CheckProbsRows(r1, pp)
                  IN  IF Failed(r2) THEN r2
                      ELSE LET r3 == CheckProbsNdim(r2, pp)
                           IN  IF Failed(r3) THEN r3
                               ELSE LET r4 == CheckProbsRange(r3, pp)
                                    IN  IF Failed(r4) THEN r4
                                        ELSE CheckClassCount(
                                                 WarnIfX(r4, x), pp, ml, amc)

assert_valid_inputs(x, yy, pp, ml, amc, e) ==
    LET r1 == CheckLabelForm([Start EXCEPT !.y = yy], yy)
    IN  IF Failed(r1) THEN r1
        ELSE LET r2 == NormalizeLabels(r1, yy, ml, amc)
             IN  IF Failed(r2) THEN r2
                 ELSE LET r3 == CheckFeatures(r2, x, pp, e)
                      IN  IF Failed(r3) THEN r3
                          ELSE CheckPredProbs(r3, x, pp, ml, amc)

----------------------------------------------------------------------------
(* The arguments the calls are made with.                                  *)

Arrays(form, shapes, vals) ==
    UNION {{Container(form, s, d, TRUE) : d \in [1 .. Product(s) -> vals]} :
           s \in shapes}

Shapes1(n) == {<<k>> : k \in 0 .. n}

\* a list whose rows differ in length, [[0], [0, 1]]: np.asarray fails on it
RaggedList == Container("list", <<2>>, <<0, 0, 1>>, FALSE)

\* label containers with at most n labels: flat and nested lists, tuples,
\* arrays of 0, 1 and 2 dimensions, numpy scalars, Series, DataFrames
YOf(n, vals) ==
    Arrays("list", Shapes1(n), vals)
    \cup Arrays("list", {s \in Shapes2(n) : s[1] > 0}, vals)
    \cup {RaggedList}
    \cup Arrays("tuple", Shapes1(n), vals)
    \cup Arrays("generic", {<<>>}, vals)
    \cup Arrays("ndarray", {<<>>} \cup Shapes1(n) \cup Shapes2(n), vals)
    \cup Arrays("Series", Shapes1(n), vals)
    \cup Arrays("DataFrame", Shapes2(n), vals)

\* the array filled with one value
Filled(form, shape, v) ==
    Container(form, shape, [i \in 1 .. Product(shape) |-> v], TRUE)

\* the array whose first entry is a and whose other entries are b
Mixed(form, shape, a, b) ==
    Container(form, shape,
              [i \in 1 .. Product(shape) |-> IF i = 1 THEN a ELSE b], TRUE)

ProbShapes ==
    {<<>>} \cup Shapes1(MaxN) \cup {<<r, c>> : r \in 0 .. MaxN, c \in 0 .. MaxCols}

\* pred_probs when given: an array of any of the shapes filled with one
\* value, a full-size matrix with one entry unlike the others, a numpy
\* scalar, or a nested list (not an array)
PPSet ==
    {Filled("ndarray", s, v) : s \in ProbShapes, v \in ProbVals}
    \cup {Mixed("ndarray", <<MaxN, MaxCols>>, a, b) : a \in ProbVals, b \in ProbVals}
    \cup {Filled("generic", <<>>, v) : v \in ProbVals}
    \cup {Filled("list", <<MaxN, MaxCols>>, 1)}

\* the labels of a call of assert_valid_inputs: every flat list of at
\* most MaxN labels, and every other container with labels 0 and 1
YInputs ==
    Arrays("list", Shapes1(MaxN), 0 .. MaxLabel) \cup YOf(MaxN, {0, 1})

\* X when pred_probs is given: None, an object with neither size nor
\* indexing, an indexable array that is empty or has MaxN rows, a
\* tensorflow Dataset
XProbe ==
    {NoneX, Features("other", Unsized, Unsized, FALSE, FALSE),
     Features("other", 0, 0, FALSE, TRUE),
     Features("other", MaxN, MaxN, FALSE, TRUE),
     Features("tf", Unsized, Unsized, FALSE, FALSE)}

NoEnv == [torch |-> FALSE, tensorflow |-> FALSE]
AllEnv == [torch |-> TRUE, tensorflow |-> TRUE]

----------------------------------------------------------------------------
(* The calls.                                                              *)

Init ==
    /\ pc = "idle"
    /\ fn = ""
    /\ X = NoneX
    /\ y = NoArray
    /\ pred_probs = NoArray
    /\ multi_label = FALSE
    /\ allow_missing_classes = FALSE
    /\ idx = NoArg
    /\ length_X = NoArg
    /\ env = NoEnv
    /\ result = Start

CallLabelsToArray ==
    /\ pc = "idle"
    /\ \E yy \in YOf(MaxLen, LabelVals) :
          /\ y' = yy
          /\ result' = labels_to_array(Start, yy)
    /\ fn' = "labels_to_array"
    /\ pc' = "returned"
    /\ UNCHANGED <<X, pred_probs, multi_label, allow_missing_classes, idx,
                   length_X, env>>

CallAssertValidClassLabels ==
    /\ pc = "idle"
    /\ \E a \in {c \in YOf(MaxLen, LabelVals) : c.form = "ndarray"},
          amc \in BOOLEAN :
          /\ y' = a
          /\ allow_missing_classes' = amc
          /\ result' = assert_valid_class_labels(Start, a, amc)
    /\ fn' = "assert_valid_class_labels"
    /\ pc' = "returned"
    /\ UNCHANGED <<X, pred_probs, multi_label, idx, length_X, env>>

CallAssertNonemptyInput ==
    /\ pc = "idle"
    /\ \E x \in XSet(MaxN) :
          /\ X' = x
          /\ result' = assert_nonempty_input(Start, x)
    /\ fn' = "assert_nonempty_input"
    /\ pc' = "returned"
    /\ UNCHANGED <<y, pred_probs, multi_label, allow_missing_classes, idx,
                   length_X, env>>

CallAssertIndexingWorks ==
    /\ pc = "idle"
    /\ \E x \in XSet(MaxN), e \in EnvSet,
          i \in {NoArg, Arg(<<0, 1>>)},
          n \in {NoArg} \cup {Arg(k) : k \in 0 .. MaxN} :
          /\ Possible(x, e)
          /\ X' = x
          /\ env' = e
          /\ idx' = i
          /\ length_X' = n
          /\ result' = assert_indexing_works(Start, x, i, n, e)
    /\ fn' = "assert_indexing_works"
    /\ pc' = "returned"
    /\ UNCHANGED <<y, pred_probs, multi_label, allow_missing_classes>>

\* assert_valid_inputs(X, y) and assert_valid_inputs(X, y, pred_probs=None)
CallAssertValidInputs ==
    /\ pc = "idle"
    /\ \E x \in XSet(MaxN), e \in EnvSet, yy \in YInputs,
          ml \in BOOLEAN, amc \in BOOLEAN :
          /\ Possible(x, e)
          /\ X' = x
          /\ env' = e
          /\ y' = yy
          /\ multi_label' = ml
          /\ allow_missing_classes' = amc
          /\ result' = assert_valid_inputs(x, yy, NoArray, ml, amc, e)
    /\ pred_probs' = NoArray
    /\ fn' = "assert_valid_inputs"
    /\ pc' = "returned"
    /\ UNCHANGED <<idx, length_X>>

\* assert_valid_inputs(X, y, pred_probs)
CallAssertValidInputsProbs ==
    /\ pc = "idle"
    /\ \E x \in XProbe, e \in {NoEnv, AllEnv}, yy \in YInputs,
          pp \in PPSet, ml \in BOOLEAN, amc \in BOOLEAN :
          /\ Possible(x, e)
          /\ X' = x
          /\ env' = e
          /\ y' = yy
          /\ pred_probs' = pp
          /\ multi_label' = ml
          /\ allow_missing_classes' = amc
          /\ result' = assert_valid_inputs(x, yy, pp, ml, amc, e)
    /\ fn' = "assert_valid_inputs"
    /\ pc' = "returned"
    /\ UNCHANGED <<idx, length_X>>

\* the call is over: the module keeps nothing of it
Return ==
    /\ pc = "returned"
    /\ pc' = "idle"
    /\ fn' = ""
    /\ X' = NoneX
    /\ y' = NoArray
    /\ pred_probs' = NoArray
    /\ multi_label' = FALSE
    /\ allow_missing_classes' = FALSE
    /\ idx' = NoArg
    /\ length_X' = NoArg
    /\ env' = NoEnv
    /\ result' = Start

NextLabels == CallLabelsToArray \/ CallAssertValidClassLabels \/ Return
NextIndexing == CallAssertNonemptyInput \/ CallAssertIndexingWorks \/ Return
NextFeatures == CallAssertValidInputs \/ Return
NextProbs == CallAssertValidInputsProbs \/ Return
NextInputs == CallAssertValidInputs \/ CallAssertValidInputsProbs \/ Return
Next == NextLabels \/ NextIndexing \/ NextFeatures \/ NextProbs

SpecLabels == Init /\ [][NextLabels]_vars
SpecIndexing == Init /\ [][NextIndexing]_vars
SpecFeatures == Init /\ [][NextFeatures]_vars
SpecProbs == Init /\ [][NextProbs]_vars
SpecInputs == Init /\ [][NextInputs]_vars
Spec == Init /\ [][Next]_vars

----------------------------------------------------------------------------
(* Properties.                                                             *)

Returned(f) == pc = "returned" /\ fn = f

Reached(c) == \E i \in 1 .. Len(result.trace) : result.trace[i] = c

RaisedAt(e, c) == result.err = e /\ result.at = c

\* the distinct values of a container
Classes(c) == {c.data[i] : i \in 1 .. Len(c.data)}

\* the classes present are exactly 0, 1, ..., K-1 for some K >= 2
CompleteClasses(c) ==
    /\ Cardinality(Classes(c)) >= 2
    /\ Classes(c) = 0 .. (Cardinality(Classes(c)) - 1)

\* C1: with allow_missing_classes = False, assert_valid_class_labels(y)
\* returns without error if and only if y is one-dimensional and its
\* distinct values are exactly 0..K-1 for some K >= 2.
C1_ValidLabelsIff ==
    (Returned("assert_valid_class_labels") /\ ~allow_missing_classes)
        => (result.err = "none" <=> (Ndim(y) = 1 /\ CompleteClasses(y)))

\* a successful check of unsorted labels with a repeated class, [1, 0, 0]
C1_Witness ==
    /\ Returned("assert_valid_class_labels")
    /\ ~allow_missing_classes
    /\ result.err = "none"
    /\ y.data = <<1, 0, 0>>

\* C2: for a one-dimensional y and allow_missing_classes = False, fewer than
\* 2 distinct classes raises ValueError whatever the class is; otherwise a
\* class set other than 0..K-1 raises TypeError; with
\* allow_missing_classes = True no error is raised for a one-dimensional y.
C2_ErrorOrder ==
    (Returned("assert_valid_class_labels") /\ Ndim(y) = 1)
        => /\ (~allow_missing_classes /\ Cardinality(Classes(y)) < 2)
                => RaisedAt("ValueError", "labels_two_classes")
           /\ (~allow_missing_classes /\ Cardinality(Classes(y)) >= 2
                  /\ ~CompleteClasses(y))
                => RaisedAt("TypeError", "labels_zero_indexed")
           /\ allow_missing_classes => result.err = "none"

\* the single class 2 (not class 0) is refused for being a single class
C2_Witness ==
    /\ Returned("assert_valid_class_labels")
    /\ ~allow_missing_classes
    /\ y.data = <<2, 2>>
    /\ RaisedAt("ValueError", "labels_two_classes")

\* C8: labels_to_array raises or returns a one-dimensional array; a
\* single-column DataFrame gives its column, a DataFrame with another
\* number of columns raises ValueError, and anything else raises ValueError
\* exactly when it cannot be coerced.
C8_FlatOrRaises ==
    Returned("labels_to_array")
        => /\ result.err = "none" => Ndim(result.y) = 1
           /\ (y.form = "DataFrame" /\ y.shape[2] = 1)
                => (result.err = "none" /\ result.y.data = y.data)
           /\ (y.form = "DataFrame" /\ y.shape[2] # 1)
                => result.err = "ValueError"
           /\ (y.form \notin {"DataFrame", "Series"})
                => (result.err = "ValueError" <=> ~y.ok)

\* what each attempt of assert_indexing_works does on X
WorksIloc == X.kind = "pandas" /\ X.iloc
WorksTorch == X.kind = "torch" /\ env.torch
WorksTensorflow == X.kind = "tf" /\ env.tensorflow
WorksGetitem == X.getitem

\* the attempts made when the first one that works is w ("" if none does)
AttemptsUpTo(w) ==
    IF w = "iloc" THEN <<"iloc">>
    ELSE IF w = "torch" THEN <<"iloc", "torch">>
    ELSE IF w = "tensorflow" THEN <<"iloc", "torch", "tensorflow">>
    ELSE <<"iloc", "torch", "tensorflow", "getitem">>

FirstWorking ==
    IF WorksIloc THEN "iloc"
    ELSE IF WorksTorch THEN "torch"
    ELSE IF WorksTensorflow THEN "tensorflow"
    ELSE IF WorksGetitem THEN "getitem"
    ELSE ""

\* C7: assert_indexing_works tries .iloc, the torch Dataset, the tensorflow
\* Dataset and X[idx] in this order, goes on after a failed attempt, stops
\* at the first attempt that works, succeeds if and only if one attempt
\* works, and otherwise raises TypeError and nothing else.
C7_IndexingAttempts ==
    Returned("assert_indexing_works")
        => /\ result.trace = AttemptsUpTo(FirstWorking)
           /\ result.via = FirstWorking
           /\ result.err = "none" <=> FirstWorking # ""
           /\ FirstWorking = "" => RaisedAt("TypeError", "getitem")

\* a DataFrame whose .iloc[idx] fails is still accepted through X[idx]
C7_Witness ==
    /\ Returned("assert_indexing_works")
    /\ X.kind = "pandas" /\ ~X.iloc
    /\ result.err = "none"
    /\ result.via = "getitem"

AVI == "assert_valid_inputs"

LabelChecks ==
    {"label_form", "labels_to_array", "labels_ndim", "labels_two_classes",
     "labels_zero_indexed"}

IsXCheck(c) ==
    c \in {"nonempty", "len", "shape", "same_length", "iloc", "torch",
           "tensorflow", "getitem"}

\* the checks of X the call reached, in order
XTrace == SelectSeq(result.trace, IsXCheck)

IsPrefix(s, t) == Len(s) <= Len(t) /\ \A i \in 1 .. Len(s) : s[i] = t[i]

\* the labels passed their checks
LabelsPassed == result.at \notin LabelChecks

\* C4: with pred_probs = None and X no tensorflow Dataset, the checks of X
\* run in the order None, len(X), X.shape[0] only if len(X) failed, same
\* length as the labels, indexing, and the call raises at the first one
\* violated; the indexing check gets length_X = the example count.
C4_FeatureCheckOrder ==
    (Returned(AVI) /\ pred_probs.form = "None"
       /\ ~(X.kind = "tf" /\ env.tensorflow) /\ LabelsPassed)
        => LET sized == X.len # -1 \/ X.shape0 # -1
               n == IF X.len # -1 THEN X.len ELSE X.shape0
               head == IF X.len # -1
                       THEN <<"nonempty", "len", "same_length">>
                       ELSE <<"nonempty", "len", "shape", "same_length">>
           IN  /\ Len(XTrace) >= 1
               /\ IsPrefix(XTrace, head \o AttemptsUpTo(FirstWorking))
               /\ X.kind = "None" => RaisedAt("ValueError", "nonempty")
               /\ (X.kind # "None" /\ ~sized) => RaisedAt("TypeError", "shape")
               /\ (X.kind # "None" /\ sized /\ LenOf(y) # -1 /\ n # LenOf(y))
                    => RaisedAt("ValueError", "same_length")
               /\ (X.kind # "None" /\ sized /\ n = LenOf(y))
                    => /\ XTrace = head \o AttemptsUpTo(FirstWorking)
                       /\ result.idx = <<0, n - 1>>
                       /\ result.err = "none" <=> FirstWorking # ""
                       /\ FirstWorking = "" => RaisedAt("TypeError", "getitem")

\* X of length 1 against the two labels [0, 1]: a length mismatch
C4_Witness ==
    /\ Returned(AVI)
    /\ pred_probs.form = "None"
    /\ X.kind = "other" /\ X.len = 1
    /\ y.form = "list" /\ y.data = <<0, 1>>
    /\ RaisedAt("ValueError", "same_length")

\* one-dimensional labels of a single class 0, in the same container type
\* and of the same length
Plain(c) ==
    IF Ndim(c) = 0 THEN Filled(c.form, <<>>, 0)
    ELSE IF c.form = "DataFrame" THEN Filled(c.form, <<LenOf(c), 1>>, 0)
    ELSE Filled(c.form, <<LenOf(c)>>, 0)

\* C9: a y that is no accepted container raises TypeError before any other
\* check, in both modes; with multi_label = True neither labels_to_array
\* nor assert_valid_class_labels runs, and the call does what it does for
\* any other labels in the same container type and of the same length.
C9_LabelFormFirst ==
    Returned(AVI)
        => /\ y.form \notin {"list", "ndarray", "generic", "Series", "DataFrame"}
                => (RaisedAt("TypeError", "label_form")
                      /\ result.trace = <<"label_form">>)
           /\ multi_label
                => /\ \A c \in LabelChecks \ {"label_form"} : ~Reached(c)
                   /\ LET o == assert_valid_inputs(X, Plain(y), pred_probs,
                                   multi_label, allow_missing_classes, env)
                      IN  /\ result.err = o.err
                          /\ result.trace = o.trace
                          /\ result.warned = o.warned

\* multi-label mode accepts the single class 2, not zero-indexed
C9_Witness ==
    /\ Returned(AVI)
    /\ multi_label /\ ~allow_missing_classes
    /\ y.form = "list" /\ y.data = <<2, 2>>
    /\ result.err = "none"

PredProbsGiven == pred_probs.form # "None"

\* C3: with pred_probs given, X is never checked: the call does for every X
\* what it does for X = None.
C3_FeaturesIgnored ==
    (Returned(AVI) /\ PredProbsGiven)
        => /\ XTrace = <<>>
           /\ LET o == assert_valid_inputs(NoneX, y, pred_probs, multi_label,
                           allow_missing_classes, env)
              IN  /\ result.err = o.err
                  /\ result.at = o.at
                  /\ result.trace = o.trace

\* a call that succeeds with an X that has no length and no indexing
C3_Witness ==
    /\ Returned(AVI)
    /\ PredProbsGiven
    /\ X = Features("other", Unsized, Unsized, FALSE, FALSE)
    /\ result.err = "none"

IsArray(a) == a.form \in {"ndarray", "generic"}

\* a value outside the closed interval [0, 1]
Outside(v) == v # NaN /\ (v < 0 \/ v > 1)

SomeOutside(a) == \E i \in 1 .. Len(a.data) : Outside(a.data[i])

\* the four checks of pred_probs that come before the warning
ProbsWellFormed ==
    /\ IsArray(pred_probs)
    /\ LenOf(pred_probs) = LenOf(y)
    /\ Ndim(pred_probs) = 2
    /\ ~SomeOutside(pred_probs)

\* C5: the checks of pred_probs run in the order type, row count,
\* dimensions, range, and the first one violated raises: TypeError for the
\* type, ValueError for the others; the warning is emitted exactly when the
\* four passed and X is not None.
C5_ProbsCheckOrder ==
    (Returned(AVI) /\ PredProbsGiven /\ LabelsPassed /\ LenOf(y) # -1)
        => /\ ~IsArray(pred_probs) => RaisedAt("TypeError", "pp_type")
           /\ (IsArray(pred_probs) /\ Ndim(pred_probs) # 2)
                => (result.err = "ValueError"
                      /\ result.at \in {"pp_rows", "pp_ndim"})
           /\ (IsArray(pred_probs) /\ LenOf(pred_probs) # -1
                 /\ LenOf(pred_probs) # LenOf(y))
                => RaisedAt("ValueError", "pp_rows")
           /\ (IsArray(pred_probs) /\ LenOf(pred_probs) = LenOf(y)
                 /\ Ndim(pred_probs) # 2)
                => RaisedAt("ValueError", "pp_ndim")
           /\ (IsArray(pred_probs) /\ LenOf(pred_probs) = LenOf(y)
                 /\ Ndim(pred_probs) = 2 /\ SomeOutside(pred_probs))
                => RaisedAt("ValueError", "pp_range")
           /\ result.warned <=> (ProbsWellFormed /\ X.kind # "None")

\* C6: with pred_probs given, the number of distinct labels is compared
\* with the number of columns exactly when allow_missing_classes and
\* multi_label are both False; a difference raises ValueError.
C6_ClassCountGuard ==
    (Returned(AVI) /\ PredProbsGiven /\ Reached("warn_X"))
        => /\ Reached("class_count")
                <=> (~allow_missing_classes /\ ~multi_label)
           /\ (~allow_missing_classes /\ ~multi_label)
                => (RaisedAt("ValueError", "class_count")
                      <=> Cardinality(Classes(y)) # pred_probs.shape[2])
           /\ (allow_missing_classes \/ multi_label) => result.err = "none"

\* two classes against a pred_probs of one column
C6_Witness ==
    /\ Returned(AVI)
    /\ ~allow_missing_classes /\ ~multi_label
    /\ y.data = <<0, 1>>
    /\ pred_probs.shape = <<2, 1>>
    /\ RaisedAt("ValueError", "class_count")

\* C10: a call with pred_probs, multi_label = False and
\* allow_missing_classes = False that returns leaves pred_probs
\* two-dimensional with one row per label and every value in [0, 1], and
\* the labels exactly 0..K-1 for K = the number of columns, K >= 2.
C10_AcceptedInputs ==
    (Returned(AVI) /\ PredProbsGiven /\ ~multi_label
       /\ ~allow_missing_classes /\ result.err = "none")
        => /\ Ndim(pred_probs) = 2
           /\ pred_probs.shape[1] = LenOf(y)
           /\ \A i \in 1 .. Len(pred_probs.data) :
                 /\ pred_probs.data[i] # NaN
                 /\ pred_probs.data[i] >= 0
                 /\ pred_probs.data[i] <= 1
           /\ pred_probs.shape[2] >= 2
           /\ Classes(y) = 0 .. (pred_probs.shape[2] - 1)

====
